---- MODULE Spec2Model ----
(***************************************************************************)
(* A model of mc_discord.py: the MCLink command registry, the role based   *)
(* permission resolver, the dispatcher (call), the RCON bridge (connect,   *)
(* close, execute) and the Discord adapter (_DiscordLink.on_message).      *)
(*                                                                         *)
(* Python values are modelled by what the interpreter does with them:      *)
(*   - None is 0: socket handles, guild ids and clients are positive;      *)
(*   - a str that the code splits or slices is a sequence of atoms (the    *)
(*     prefix "!", the separator " ", and words), a str that is only       *)
(*     formatted is a TLA+ string;                                         *)
(*   - an object that is compared or hashed carries its type, because      *)
(*     Python's == does;                                                   *)
(*   - a raised exception is an outcome record of kind "raise".            *)
(* Coroutines run atomically from one suspension point to the next: the    *)
(* only suspension inside a command is the socket exchange awaited by      *)
(* execute.                                                                *)
(***************************************************************************)
EXTENDS Integers, Sequences, FiniteSets, TLC

(***************************************************************************)
(* Bounds of the model.                                                    *)
(***************************************************************************)
\* register_admin / register_role / register_command / connect / close calls
MaxSetup == 2
\* coroutines suspended in execute at the same time
MaxTasks == 2
\* MCLink objects constructed
MaxInstances == 2

(***************************************************************************)
(* class Permission(Enum)                                                  *)
(***************************************************************************)
Default == 0
Moderator == 25
Admin == 50
Owner == 900
Levels == {Default, Moderator, Admin, Owner}

\* Permission.__lt__
PermissionLt(a, b) == a < b
\* Permission.__le__
PermissionLe(a, b) == a <= b
\* a >= b on Permission: no __ge__ is defined, Python falls back to the
\* reflected b.__le__(a)
PermissionGe(a, b) == PermissionLe(b, a)
\* max(a, b) on Permission: b replaces a only when b > a, which Python
\* evaluates through the reflected a.__lt__(b)
PermissionMax(a, b) == IF PermissionLt(a, b) THEN b ELSE a

(***************************************************************************)
(* The Discord side the code reads: one guild the client knows, its        *)
(* members and their roles.                                                *)
(***************************************************************************)
None == 0
\* the _DiscordLink(self) that connect creates
Client == 1

\* the guild the client has in its cache; get_guild answers None for another id
KnownGuild == 1
GuildIds == {1, 2}
\* guild.members, and member.roles as role ids; user 3 is in no guild
GuildMembers == <<1, 2>>
MemberRoles == (1 :> <<10, 20>>) @@ (2 :> <<30>>)
UserIds == {1, 2, 3}
\* the role ids and the levels passed to register_role
RoleIds == {10, 20}
RoleLevels == {Moderator, Admin}
\* the user ids passed to register_admin
AdminIds == {1}

\* a Python int, and a discord.Role object, as values that == and hash see
PyInt(n) == [type |-> "int", id |-> n]
RoleObject(n) == [type |-> "Role", id |-> n]
\* a == b for these values: discord's Role.__eq__ requires isinstance(other,
\* Role), int.__eq__ requires an int; an int never equals a Role
PyEq(a, b) == a.type = b.type /\ a.id = b.id

(***************************************************************************)
(* Command handlers: the callables passed to register_command.  Apart from *)
(* MCLink.help they are the caller's code; the model has one handler per   *)
(* way a handler can end.                                                  *)
(***************************************************************************)
HelpFunc == [kind |-> "help", ok |-> TRUE, text |-> ""]
RetNone == [kind |-> "none", ok |-> TRUE, text |-> ""]
RetFail == [kind |-> "pair", ok |-> FALSE, text |-> "nope"]
Raises == [kind |-> "raise", ok |-> FALSE, text |-> "boom"]
\* awaits link.execute(text) and returns (True, <the response>)
Rcon == [kind |-> "rcon", ok |-> TRUE, text |-> "list"]
UserHandlers == {RetNone, RetFail, Raises, Rcon}

\* the names, levels and help texts passed to register_command
CommandNames == {"help", "list"}
CommandLevels == {Default, Admin}
HelpTexts == {"List players"}

\* class Command
Command(name, level, func, help) ==
    [name |-> name, permission |-> level, func |-> func, help |-> help]

(***************************************************************************)
(* Inputs of call and contents of chat messages, as atom sequences.        *)
(***************************************************************************)
Inputs ==
    { <<>>, <<"help">>, <<"list">>, <<"frobnicate">>,
      <<"list", " ", " ", "a", " ">> }

RECURSIVE Join(_)
\* the str an atom sequence stands for
Join(s) == IF s = <<>> THEN "" ELSE Head(s) \o Join(Tail(s))

RECURSIVE split(_, _)
\* str.split(" "): acc is the list built so far, its last element the token
\* being read; every separator starts a new token
split(s, acc) ==
    IF s = <<>> THEN acc
    ELSE IF Head(s) = " " THEN split(Tail(s), Append(acc, ""))
    ELSE split(Tail(s), [acc EXCEPT ![Len(acc)] = @ \o Head(s)])
Split(input) == split(input, <<"">>)

(***************************************************************************)
(* State.                                                                  *)
(***************************************************************************)
VARIABLES
    commands,          \* MCLink._commands: a dict, kept in insertion order
    role_permissions,  \* MCLink._role_permissions: key -> Permission
    bot_admins,        \* MCLink._bot_admins: a list
    rcon_socket,       \* self._rcon_socket: None or a socket handle
    link,              \* self._link: None or the Discord client
    guild_id,          \* self._guild_id
    sockets,           \* socket handle -> "open" | "closed", for every socket created
    wire,              \* the requests whose response is unread, oldest first
    tasks,             \* the coroutines suspended in execute, oldest first
    nsetup,            \* setup operations so far
    instances,         \* MCLink objects constructed so far
    ret                \* what the last operation gave its caller

vars == <<commands, role_permissions, bot_admins, rcon_socket, link, guild_id,
          sockets, wire, tasks, nsetup, instances, ret>>


\* the outcome of an operation: a value returned, an exception raised, or a
\* coroutine suspended
NoRet ==
    [op |-> "", self |-> 1, kind |-> "", input |-> <<>>, author |-> 0,
     ok |-> FALSE, msg |-> "", exc |-> "", invoked |-> <<>>, sent |-> <<>>,
     inner |-> "", reply |-> "", resumed |-> FALSE, level |-> 0]

(***************************************************************************)
(* Outcomes of the synchronous code.                                       *)
(***************************************************************************)
Returned(ok, msg, invoked) ==
    [kind |-> "return", ok |-> ok, msg |-> msg, exc |-> "", invoked |-> invoked]
Raised(exc, invoked) ==
    [kind |-> "raise", ok |-> FALSE, msg |-> "", exc |-> exc, invoked |-> invoked]
\* suspended in "await mcrcon.command(self._rcon_socket, msg)"
Awaiting(cmd, invoked) ==
    [kind |-> "await", ok |-> FALSE, msg |-> cmd, exc |-> "", invoked |-> invoked]

(***************************************************************************)
(* The command registry.                                                   *)
(***************************************************************************)
\* name in self._commands
HasCommand(name) == \E i \in 1 .. Len(commands) : commands[i].name = name
\* self._commands[name]
LookupCommand(name) ==
    commands[CHOOSE i \in 1 .. Len(commands) : commands[i].name = name]
\* a registration that updates the entry it finds and keeps its handler
SetCommandKeepsHandler(cmds, c) ==
    IF \E i \in 1 .. Len(cmds) : cmds[i].name = c.name
    THEN [i \in 1 .. Len(cmds) |->
             IF cmds[i].name = c.name THEN [c EXCEPT !.func = cmds[i].func]
             ELSE cmds[i]]
    ELSE Append(cmds, c)
\* cmds[c.name] = c: a dict replaces the value of a key it has, in place, and
\* appends a new key
SetCommand(cmds, c) ==
    IF \E i \in 1 .. Len(cmds) : cmds[i].name = c.name
    THEN [i \in 1 .. Len(cmds) |-> IF cmds[i].name = c.name THEN c ELSE cmds[i]]
    ELSE Append(cmds, c)

(***************************************************************************)
(* MCLink.get_member_permission_level                                      *)
(***************************************************************************)
Level(l) == [kind |-> "return", level |-> l, exc |-> ""]
LevelRaised(exc) == [kind |-> "raise", level |-> Default, exc |-> exc]

\* self._link.get_guild(self._guild_id)
GetGuild == IF guild_id = KnownGuild THEN KnownGuild ELSE None

\* role in self._role_permissions: the Role object against the keys of the dict
RoleInPermissions(role) == \E k \in DOMAIN role_permissions : PyEq(role, k)

RECURSIVE HighestRole(_, _)
\* the loop over member.roles
HighestRole(roles, permission_level) ==
    IF roles = <<>> THEN Level(permission_level)
    ELSE LET role == RoleObject(Head(roles)) IN
         IF RoleInPermissions(role)
         THEN IF PyInt(role.id) \in DOMAIN role_permissions
              THEN HighestRole(Tail(roles),
                       PermissionMax(permission_level,
                                     role_permissions[PyInt(role.id)]))
              ELSE LevelRaised("KeyError")
         ELSE HighestRole(Tail(roles), permission_level)

\* guild.members.index(user) raising ValueError
NotAMember(user) == ~ \E i \in 1 .. Len(GuildMembers) : GuildMembers[i] = user

\* a resolver that gives the users of the admin list the highest level
GetMemberPermissionLevelAdmins(user) ==
    IF \E i \in 1 .. Len(bot_admins) : bot_admins[i] = user
    THEN Level(Owner)
    ELSE IF link = None
    THEN LevelRaised("'NoneType' object has no attribute 'get_guild'")
    ELSE IF GetGuild = None
    THEN LevelRaised("'NoneType' object has no attribute 'members'")
    ELSE IF NotAMember(user) THEN Level(Default)
    ELSE HighestRole(MemberRoles[user], Default)

GetMemberPermissionLevel(user) ==
    IF link = None
    THEN LevelRaised("'NoneType' object has no attribute 'get_guild'")
    ELSE IF GetGuild = None
    THEN LevelRaised("'NoneType' object has no attribute 'members'")
    ELSE IF NotAMember(user) THEN Level(Default)
    ELSE HighestRole(MemberRoles[user], Default)

(***************************************************************************)
(* MCLink.help                                                             *)
(***************************************************************************)
HelpHeader ==
    "Hello! I am a Discord -> Minecraft: Java Edition server link!\nHere are the commands available to you:\n\n"
\* the character U+0060 of the format string, which a string of this
\* language cannot hold
Backquote == "{U+0060}"
\* "* {Backquote}{:s}{Backquote} - {:s}\n".format(x.name, x.help)
HelpLine(x) ==
    "* " \o Backquote \o x.name \o Backquote \o " - " \o x.help \o "\n"
\* the test reversed and strict: x.permission > user_permission
HelpListedAbove(user_permission, x) == PermissionLt(user_permission, x.permission)
\* the test of the loop: user_permission >= x.permission
HelpListed(user_permission, x) == PermissionGe(user_permission, x.permission)

RECURSIVE HelpLines(_, _)
\* the loop over self._commands.values()
HelpLines(cmds, user_permission) ==
    IF cmds = <<>> THEN ""
    ELSE (IF HelpListed(user_permission, Head(cmds))
          THEN HelpLine(Head(cmds)) ELSE "")
         \o HelpLines(Tail(cmds), user_permission)

Help(user, invoked) ==
    LET user_permission == GetMemberPermissionLevel(user) IN
    IF user_permission.kind = "raise" THEN Raised(user_permission.exc, invoked)
    ELSE Returned(TRUE, HelpHeader \o HelpLines(commands, user_permission.level),
                  invoked)

(***************************************************************************)
(* Further MCLink objects.  _commands, _role_permissions and _bot_admins   *)
(* are attributes of the class, and every object changes them in place, so *)
(* the variables above are the tables of all objects.  _rcon_socket, _link *)
(* and _guild_id are assigned per object; connect is called on object 1    *)
(* only, so on every further object they read as the class attribute None. *)
(***************************************************************************)
\* the bound method self.help of object inst, as a handler
BoundHelp(inst) ==
    IF inst = 1 THEN HelpFunc
    ELSE [kind |-> "help_of", ok |-> TRUE, text |-> "", self |-> inst]

\* get_member_permission_level called on object inst
LevelOn(inst, user) ==
    IF inst = 1 THEN GetMemberPermissionLevel(user)
    ELSE LevelRaised("'NoneType' object has no attribute 'get_guild'")

\* help called on object inst
HelpOn(inst, user, invoked) ==
    LET user_permission == LevelOn(inst, user) IN
    IF user_permission.kind = "raise" THEN Raised(user_permission.exc, invoked)
    ELSE Returned(TRUE, HelpHeader \o HelpLines(commands, user_permission.level),
                  invoked)

(***************************************************************************)
(* MCLink.execute, up to the exchange on the socket                        *)
(***************************************************************************)
\* MCLink.is_connected
IsConnected == rcon_socket # None
NotConnectedText == "RCON is not connected"

\* execute without its test of is_connected
ExecuteStartUnchecked(command, invoked) == Awaiting(command, invoked)
ExecuteStart(command, invoked) ==
    IF ~ IsConnected THEN Returned(TRUE, NotConnectedText, invoked)
    ELSE Awaiting(command, invoked)

(***************************************************************************)
(* MCLink.call, up to its return, its exception or its first suspension    *)
(***************************************************************************)
\* the message without the name it formats
UnknownCommandTextBare(cmd_name) == "Error: Unknown command"
UnknownCommandText(cmd_name) == "Error: Unknown command '" \o cmd_name \o "'"
NoPermissionText == "You don't have permission for that command."
NoResponseText == "No response for command"

\* an exception of the handler turned into a failed result
HandlerFaultCaught(exc, invoked) ==
    Returned(FALSE, "Error in command: " \o exc, invoked)
\* an exception of the handler leaves the await of call: nothing in call
\* catches it
HandlerFault(exc, invoked) == Raised(exc, invoked)

\* call that reports a handler without a result as a failure
RunCommandNoneFails(cmd, cmd_args, user) ==
    LET invoked == << [name |-> cmd.name, func |-> cmd.func, args |-> cmd_args] >>
    IN  CASE cmd.func.kind = "help" -> Help(user, invoked)
          [] cmd.func.kind = "help_of" -> HelpOn(cmd.func.self, user, invoked)
          [] cmd.func.kind = "none" -> Returned(FALSE, NoResponseText, invoked)
          [] cmd.func.kind = "pair" -> Returned(cmd.func.ok, cmd.func.text, invoked)
          [] cmd.func.kind = "raise" -> HandlerFault(cmd.func.text, invoked)
          [] cmd.func.kind = "rcon" -> ExecuteStart(cmd.func.text, invoked)
\* await cmd.func(link=self, args=cmd_args, user=user) and the test of its
\* response
RunCommand(cmd, cmd_args, user) ==
    LET invoked == << [name |-> cmd.name, func |-> cmd.func, args |-> cmd_args] >>
    IN  CASE cmd.func.kind = "help" -> Help(user, invoked)
          [] cmd.func.kind = "help_of" -> HelpOn(cmd.func.self, user, invoked)
          [] cmd.func.kind = "none" -> Returned(TRUE, NoResponseText, invoked)
          [] cmd.func.kind = "pair" -> Returned(cmd.func.ok, cmd.func.text, invoked)
          [] cmd.func.kind = "raise" -> HandlerFault(cmd.func.text, invoked)
          [] cmd.func.kind = "rcon" -> ExecuteStart(cmd.func.text, invoked)

\* the permission test with its operands exchanged
DeniedReversed(permission_level, cmd) ==
    PermissionLt(cmd.permission, permission_level)
\* the permission test of call
Denied(permission_level, cmd) == PermissionLt(permission_level, cmd.permission)

\* call that resolves the level of the user before it looks the name up
CallStartResolverFirst(input, user) ==
    LET cmd_name == Split(input)[1]
        cmd_args == Tail(Split(input))
        permission_level == GetMemberPermissionLevel(user)
    IN  IF permission_level.kind = "raise"
        THEN Raised(permission_level.exc, <<>>)
        ELSE IF ~ HasCommand(cmd_name)
        THEN Returned(FALSE, UnknownCommandText(cmd_name), <<>>)
        ELSE IF Denied(permission_level.level, LookupCommand(cmd_name))
        THEN Returned(FALSE, NoPermissionText, <<>>)
        ELSE RunCommand(LookupCommand(cmd_name), cmd_args, user)

CallStart(input, user) ==
    LET cmd_name == Split(input)[1]
        cmd_args == Tail(Split(input))
    IN  IF ~ HasCommand(cmd_name)
        THEN Returned(FALSE, UnknownCommandText(cmd_name), <<>>)
        ELSE LET cmd == LookupCommand(cmd_name)
                 permission_level == GetMemberPermissionLevel(user)
             IN  IF permission_level.kind = "raise"
                 THEN Raised(permission_level.exc, <<>>)
                 ELSE IF Denied(permission_level.level, cmd)
                 THEN Returned(FALSE, NoPermissionText, <<>>)
                 ELSE RunCommand(cmd, cmd_args, user)

\* no outcome is waiting for its caller: an operation starts when the caller
\* of the one before has taken its outcome (one thread runs them all)
Idle == ret = NoRet

\* the caller takes the outcome of the operation
TakeResult ==
    /\ ~ Idle
    /\ ret' = NoRet
    /\ UNCHANGED instances
    /\ UNCHANGED <<commands, role_permissions, bot_admins, rcon_socket, link,
                   guild_id, sockets, wire, tasks, nsetup>>

(***************************************************************************)
(* Init: the state after MCLink(), which registers "help".                 *)
(***************************************************************************)
Init ==
    /\ commands = << Command("help", Default, HelpFunc, "Show this help menu") >>
    /\ role_permissions = [k \in {} |-> Default]
    /\ bot_admins = <<>>
    /\ rcon_socket = None
    /\ link = None
    /\ guild_id = None
    /\ sockets = <<>>
    /\ wire = <<>>
    /\ tasks = <<>>
    /\ nsetup = 0
    /\ instances = 1
    /\ ret = [NoRet EXCEPT !.op = "__init__", !.kind = "return"]

(***************************************************************************)
(* Registration.                                                           *)
(***************************************************************************)
\* MCLink.register_admin
RegisterAdmin(user_id) ==
    /\ Idle
    /\ nsetup < MaxSetup
    /\ nsetup' = nsetup + 1
    /\ bot_admins' = Append(bot_admins, user_id)
    /\ ret' = [NoRet EXCEPT !.op = "register_admin", !.kind = "return"]
    /\ UNCHANGED instances
    /\ UNCHANGED <<commands, role_permissions, rcon_socket, link, guild_id,
                   sockets, wire, tasks>>

\* d[key] = value on a dict
DictSet(d, key, value) ==
    [k \in DOMAIN d \cup {key} |-> IF k = key THEN value ELSE d[k]]

\* MCLink.register_role
RegisterRole(role_id, level) ==
    /\ Idle
    /\ nsetup < MaxSetup
    /\ nsetup' = nsetup + 1
    /\ role_permissions' = DictSet(role_permissions, role_id, level)
    /\ ret' = [NoRet EXCEPT !.op = "register_role", !.kind = "return"]
    /\ UNCHANGED instances
    /\ UNCHANGED <<commands, bot_admins, rcon_socket, link, guild_id,
                   sockets, wire, tasks>>

\* MCLink.register_command
RegisterCommand(name, level, func, help) ==
    /\ Idle
    /\ nsetup < MaxSetup
    /\ nsetup' = nsetup + 1
    /\ commands' = SetCommand(commands, Command(name, level, func, help))
    /\ ret' = [NoRet EXCEPT !.op = "register_command", !.kind = "return"]
    /\ UNCHANGED instances
    /\ UNCHANGED <<role_permissions, bot_admins, rcon_socket, link, guild_id,
                   sockets, wire, tasks>>

(***************************************************************************)
(* The RCON bridge: connect and close.                                     *)
(***************************************************************************)
\* how the socket connection and the login of connect can end
ConnectOutcomes == {"ok", "refused", "login_false"}

\* close without "self._rcon_socket = None"
CloseSocketKept(held, socks) ==
    IF held # None
    THEN [held |-> held, socks |-> [socks EXCEPT ![held] = "closed"]]
    ELSE [held |-> held, socks |-> socks]
\* MCLink.close, as a function of the socket the bridge holds: the socket it
\* holds afterwards and the status of every socket
CloseSocket(held, socks) ==
    IF held # None
    THEN [held |-> None, socks |-> [socks EXCEPT ![held] = "closed"]]
    ELSE [held |-> held, socks |-> socks]

\* MCLink.connect, up to the start of the Discord client: run() returns only
\* when the client stops
Connect(guild, outcome) ==
    /\ Idle
    /\ nsetup < MaxSetup
    /\ nsetup' = nsetup + 1
    /\ guild_id' = guild
    /\ LET s == Len(sockets) + 1
           created == Append(sockets, "open")
           \* the except clause: self.close(), raise e
           failed == CloseSocket(s, created)
       IN  IF outcome = "ok"
           THEN /\ rcon_socket' = s
                /\ sockets' = created
                /\ link' = Client
                /\ ret' = [NoRet EXCEPT !.op = "connect", !.kind = "running",
                             !.input = <<outcome>>]
           ELSE /\ rcon_socket' = failed.held
                /\ sockets' = failed.socks
                /\ link' = link
                /\ ret' = [NoRet EXCEPT !.op = "connect", !.kind = "raise",
                             !.input = <<outcome>>,
                             !.exc = IF outcome = "login_false"
                                     THEN "Incorrect rcon password"
                                     ELSE outcome]
    /\ UNCHANGED instances
    /\ UNCHANGED <<commands, role_permissions, bot_admins, wire, tasks>>

\* MCLink.close
Close ==
    /\ Idle
    /\ rcon_socket' = CloseSocket(rcon_socket, sockets).held
    /\ sockets' = CloseSocket(rcon_socket, sockets).socks
    /\ ret' = [NoRet EXCEPT !.op = "close", !.kind = "return"]
    /\ UNCHANGED instances
    /\ UNCHANGED <<commands, role_permissions, bot_admins, link, guild_id,
                   wire, tasks, nsetup>>

(***************************************************************************)
(* Coroutines: call, execute and on_message, and their resumption.         *)
(***************************************************************************)
\* the requests written to sock whose response is unread
Unread(sock) == { i \in 1 .. Len(wire) : wire[i].sock = sock }

\* the coroutine writes its request to the socket and waits for the response;
\* own is the place of that response among the unread ones of the socket
Suspend(origin, input, author, out) ==
    /\ Len(tasks) < MaxTasks
    /\ tasks' = Append(tasks,
                    [origin |-> origin,
                     \* on_message keeps message.content for its except clause
                     input |-> IF origin = "on_message" THEN input ELSE <<>>,
                     sock |-> rcon_socket,
                     own |-> Cardinality(Unread(rcon_socket)) + 1])
    /\ wire' = Append(wire, [sock |-> rcon_socket, command |-> out.msg])
    /\ ret' = [NoRet EXCEPT !.op = origin, !.kind = "suspend",
                 !.inner = "await", !.input = input, !.author = author,
                 !.invoked = out.invoked]

\* a failed result sent without its marker
FailMarkerAbsent == ""
\* on_message: what it sends to message.channel for an outcome of call
FailMarker == "[FAIL] "
ApologyText(input, exc) ==
    ":exclamation: An error occurred while trying to run the command '"
        \o Join(input)
        \o "'.\nPlease notify the development team.\n\nException: " \o exc
\* on_message with an except clause that sends nothing
DeliverySilent(input, out) ==
    IF out.kind = "raise" THEN <<>>
    ELSE << (IF ~ out.ok THEN FailMarker ELSE "") \o out.msg >>
Delivery(input, out) ==
    IF out.kind = "raise" THEN << ApologyText(input, out.exc) >>
    ELSE << (IF ~ out.ok THEN FailMarker ELSE "") \o out.msg >>

\* what the caller of a coroutine gets when it ends with `out`
Completion(origin, input, author, out, reply) ==
    IF origin = "on_message"
    THEN [NoRet EXCEPT !.op = origin, !.kind = "return",
            !.input = input, !.author = author, !.inner = out.kind,
            !.ok = out.ok, !.msg = out.msg, !.exc = out.exc,
            !.invoked = out.invoked, !.sent = Delivery(input, out),
            !.reply = reply]
    ELSE [NoRet EXCEPT !.op = origin, !.kind = out.kind,
            !.input = input, !.author = author, !.inner = out.kind,
            !.ok = out.ok, !.msg = out.msg, !.exc = out.exc,
            !.invoked = out.invoked, !.reply = reply]

\* run a coroutine from its start to its end or to its suspension
Run(origin, input, author, out) ==
    IF out.kind = "await"
    THEN Suspend(origin, input, author, out)
    ELSE /\ ret' = Completion(origin, input, author, out, "")
         /\ UNCHANGED <<tasks, wire>>

\* MCLink.get_member_permission_level, called by itself
GetLevel(user) ==
    /\ Idle
    /\ LET l == GetMemberPermissionLevel(user) IN
       ret' = [NoRet EXCEPT !.op = "get_member_permission_level",
                 !.kind = l.kind, !.author = user, !.level = l.level,
                 !.exc = l.exc]
    /\ UNCHANGED instances
    /\ UNCHANGED <<commands, role_permissions, bot_admins, rcon_socket, link,
                   guild_id, sockets, wire, tasks, nsetup>>

\* MCLink.call, called by itself
Call(input, user) ==
    /\ Idle
    /\ Run("call", input, user, CallStart(input, user))
    /\ UNCHANGED instances
    /\ UNCHANGED <<commands, role_permissions, bot_admins, rcon_socket, link,
                   guild_id, sockets, nsetup>>

\* MCLink.execute, called by itself
Execute(command) ==
    /\ Idle
    /\ Run("execute", <<command>>, 0, ExecuteStart(command, <<>>))
    /\ UNCHANGED instances
    /\ UNCHANGED <<commands, role_permissions, bot_admins, rcon_socket, link,
                   guild_id, sockets, nsetup>>

\* the authors of messages: users, another bot, and the bot itself
SelfUser == [id |-> 9, bot |-> TRUE]
OtherBot == [id |-> 8, bot |-> TRUE]
User(u) == [id |-> u, bot |-> FALSE]
\* the messages the client delivers
Messages ==
    { [author |-> User(u), content |-> <<"!">> \o i] :
        u \in {1}, i \in { j \in Inputs : Len(j) <= 1 } }
    \cup { [author |-> User(3), content |-> <<"!", "list">>] }
    \cup { [author |-> a, content |-> c] :
             a \in {User(1), OtherBot, SelfUser},
             c \in { <<"hello">>, <<"!", "help">> } }
    \cup { [author |-> User(1), content |-> <<"!", "!", "help">>] }

\* the filter that lets the messages of other bots through
IgnoredSelfOnly(author) == author.id = SelfUser.id
\* (message.author == self.user) or message.author.bot
Ignored(author) == author.id = SelfUser.id \/ author.bot

\* message.content.startswith('!')
StartsWithPrefix(content) == content # <<>> /\ Head(content) = "!"

\* _DiscordLink.on_message; the client delivers messages once it runs
OnMessage(author, content) ==
    /\ Idle
    /\ link # None
    /\ IF Ignored(author)
       THEN /\ ret' = [NoRet EXCEPT !.op = "on_message", !.kind = "return",
                         !.input = content, !.author = author.id]
            /\ UNCHANGED <<tasks, wire>>
       ELSE IF ~ StartsWithPrefix(content)
       THEN /\ ret' = [NoRet EXCEPT !.op = "on_message", !.kind = "return",
                         !.input = content, !.author = author.id]
            /\ UNCHANGED <<tasks, wire>>
       ELSE Run("on_message", Tail(content), author.id,
                CallStart(Tail(content), author.id))
    /\ UNCHANGED instances
    /\ UNCHANGED <<commands, role_permissions, bot_admins, rcon_socket, link,
                   guild_id, sockets, nsetup>>

\* the server's response to a request
ResponseText(command) == "response to " \o command

\* the place in wire of the oldest request written to sock
Oldest(sock) == CHOOSE i \in Unread(sock) : \A j \in Unread(sock) : i <= j
\* a sequence without its i-th element
Without(w, i) == SubSeq(w, 1, i - 1) \o SubSeq(w, i + 1, Len(w))

\* the tasks left when task t has read the oldest response of its socket: the
\* responses of those on that socket move up; one whose response t has read
\* has none to come (own = 0)
AfterRead(t) ==
    LET left == [i \in 1 .. Len(tasks) |->
                    IF tasks[i].sock = tasks[t].sock /\ tasks[i].own > 0
                    THEN [tasks[i] EXCEPT !.own = @ - 1]
                    ELSE tasks[i]]
    IN  Without(left, t)

\* mcrcon.command's read of the socket by the suspended task t: the socket
\* gives the oldest unread response to whichever task reads, or the read fails
\* (and the response it was reading is lost)
RconRecv(t, io) ==
    /\ Idle
    /\ t \in 1 .. Len(tasks)
    /\ LET me == tasks[t]
           broken == sockets[me.sock] = "closed" \/ io = "error"
           e == wire[Oldest(me.sock)]
           out == IF broken THEN Raised("socket error", <<>>)
                  ELSE Returned(TRUE, ResponseText(e.command), <<>>)
       IN  /\ wire' = Without(wire, Oldest(me.sock))
           /\ ret' = [Completion(me.origin, me.input, 0, out,
                                 IF broken THEN ""
                                 ELSE IF me.own = 1 THEN "own" ELSE "other")
                       EXCEPT !.resumed = TRUE]
    /\ tasks' = AfterRead(t)
    /\ UNCHANGED instances
    /\ UNCHANGED <<commands, role_permissions, bot_admins, rcon_socket, link,
                   guild_id, sockets, nsetup>>

Next ==
    \/ \E u \in AdminIds : RegisterAdmin(u)
    \/ \E r \in RoleIds, l \in RoleLevels : RegisterRole(PyInt(r), l)
    \/ \E n \in CommandNames, l \in CommandLevels, f \in UserHandlers, h \in HelpTexts :
          RegisterCommand(n, l, f, h)
    \/ \E g \in GuildIds, o \in ConnectOutcomes : Connect(g, o)
    \/ Close
    \/ \E u \in UserIds : GetLevel(u)
    \/ \E i \in Inputs, u \in UserIds : Call(i, u)
    \/ \E c \in {"stop"} : Execute(c)
    \/ \E m \in Messages : OnMessage(m.author, m.content)
    \/ \E t \in 1 .. MaxTasks, io \in {"ok", "error"} : RconRecv(t, io)
    \/ TakeResult

Spec == Init /\ [][Next]_vars

(***************************************************************************)
(* Operations on further MCLink objects.                                   *)
(***************************************************************************)
\* MCLink.call on object inst, up to its return or its exception: on a
\* further object the resolver raises at its first line
CallStartOn(inst, input, user) ==
    IF inst = 1 THEN CallStart(input, user)
    ELSE IF ~ HasCommand(Split(input)[1])
    THEN Returned(FALSE, UnknownCommandText(Split(input)[1]), <<>>)
    ELSE Raised(LevelOn(inst, user).exc, <<>>)

\* MCLink(): __init__ of a further object registers its own help
Construct ==
    /\ Idle
    /\ instances < MaxInstances
    /\ instances' = instances + 1
    /\ commands' = SetCommand(commands,
                       Command("help", Default, BoundHelp(instances + 1),
                               "Show this help menu"))
    /\ ret' = [NoRet EXCEPT !.op = "__init__", !.self = instances + 1,
                 !.kind = "return"]
    /\ UNCHANGED <<role_permissions, bot_admins, rcon_socket, link, guild_id,
                   sockets, wire, tasks, nsetup>>

\* register_role called on a further object
RegisterRoleOn(self, role_id, level) ==
    /\ Idle
    /\ self \in 2 .. instances
    /\ nsetup < MaxSetup
    /\ nsetup' = nsetup + 1
    /\ role_permissions' = DictSet(role_permissions, role_id, level)
    /\ ret' = [NoRet EXCEPT !.op = "register_role", !.self = self,
                 !.kind = "return"]
    /\ UNCHANGED <<commands, bot_admins, rcon_socket, link, guild_id,
                   sockets, wire, tasks, instances>>

\* register_command called on a further object
RegisterCommandOn(self, name, level, func, help) ==
    /\ Idle
    /\ self \in 2 .. instances
    /\ nsetup < MaxSetup
    /\ nsetup' = nsetup + 1
    /\ commands' = SetCommand(commands, Command(name, level, func, help))
    /\ ret' = [NoRet EXCEPT !.op = "register_command", !.self = self,
                 !.kind = "return"]
    /\ UNCHANGED <<role_permissions, bot_admins, rcon_socket, link, guild_id,
                   sockets, wire, tasks, instances>>

\* get_member_permission_level called on a further object
GetLevelOn(self, user) ==
    /\ Idle
    /\ self \in 2 .. instances
    /\ LET l == LevelOn(self, user) IN
       ret' = [NoRet EXCEPT !.op = "get_member_permission_level",
                 !.self = self, !.kind = l.kind, !.author = user,
                 !.level = l.level, !.exc = l.exc]
    /\ UNCHANGED <<commands, role_permissions, bot_admins, rcon_socket, link,
                   guild_id, sockets, wire, tasks, nsetup, instances>>

\* call called on a further object
CallOn(self, input, user) ==
    /\ Idle
    /\ self \in 2 .. instances
    /\ ret' = [Completion("call", input, user,
                          CallStartOn(self, input, user), "")
                 EXCEPT !.self = self]
    /\ UNCHANGED <<commands, role_permissions, bot_admins, rcon_socket, link,
                   guild_id, sockets, wire, tasks, nsetup, instances>>

NextInstances ==
    \/ Next
    \/ Construct
    \/ \E s \in 2 .. MaxInstances, r \in RoleIds, l \in RoleLevels :
          RegisterRoleOn(s, PyInt(r), l)
    \/ \E s \in 2 .. MaxInstances, n \in CommandNames, l \in CommandLevels,
          f \in UserHandlers, h \in HelpTexts :
          RegisterCommandOn(s, n, l, f, h)
    \/ \E s \in 2 .. MaxInstances, u \in UserIds : GetLevelOn(s, u)
    \/ \E s \in 2 .. MaxInstances, i \in Inputs, u \in UserIds : CallOn(s, i, u)

\* the engine and the further objects a program constructs
SpecInstances == Init /\ [][NextInstances]_vars

(***************************************************************************)
(* Properties.  ret is the outcome of the operation that has just ended;   *)
(* the registry, the role table and the bridge it is compared with are     *)
(* those the operation ran in, since the operations below change none.     *)
(***************************************************************************)
\* ret is the outcome of the synchronous part of MCLink.call on
\* (ret.input, ret.author), called by itself or by on_message
Dispatched ==
    /\ ret.op \in {"call", "on_message"}
    /\ ~ ret.resumed
    /\ ret.inner # ""
DispatchedName == Split(ret.input)[1]

\* C1: a registered command called by a user whose resolved level is strictly
\* below the level the command requires gives (False, "You don't have
\* permission for that command."), no handler is invoked and execute is not
\* reached.
C1_PermissionGate ==
    (Dispatched /\ HasCommand(DispatchedName)) =>
        LET c == LookupCommand(DispatchedName)
            l == GetMemberPermissionLevel(ret.author)
        IN  (l.kind = "return" /\ l.level < c.permission) =>
                /\ ret.inner = "return"
                /\ ret.ok = FALSE
                /\ ret.msg = "You don't have permission for that command."
                /\ ret.invoked = <<>>

\* C1 happens: a call of a command that requires Admin by a user resolved to
\* Default has been refused
C1_Witness ==
    /\ Dispatched
    /\ HasCommand(DispatchedName)
    /\ LookupCommand(DispatchedName).permission = Admin
    /\ GetMemberPermissionLevel(ret.author).kind = "return"
    /\ GetMemberPermissionLevel(ret.author).level = Default
    /\ ret.msg = NoPermissionText

\* ret is the outcome of a call whose command is the handler that raises
HandlerRaised(r) ==
    /\ r.op = "call"
    /\ r.invoked # <<>>
    /\ r.invoked[1].func.kind = "raise"

MappedLevels(user) ==
    { role_permissions[PyInt(MemberRoles[user][i])] :
        i \in { j \in 1 .. Len(MemberRoles[user]) :
                  PyInt(MemberRoles[user][j]) \in DOMAIN role_permissions } }
Highest(S) == CHOOSE m \in S : \A x \in S : x <= m

\* C3: for a guild member, get_member_permission_level returns the maximum of
\* Default and the levels registered for the roles the member holds.
C3_MaxOverRoles ==
    ( /\ ret.op = "get_member_permission_level"
      /\ ret.kind = "return"
      /\ ~ NotAMember(ret.author) ) =>
        ret.level = Highest(MappedLevels(ret.author) \cup {Default})

\* a user for whom the claim of C4 speaks: in no roster, or holding no role
\* whose id is registered
HoldsNoMappedRole(user) ==
    NotAMember(user) \/ MappedLevels(user) = {}

\* C4: for a user who holds no registered role, or is not in the roster of the
\* guild, get_member_permission_level returns Default and does not raise.
C4_DegradesToDefault ==
    ( /\ ret.op = "get_member_permission_level"
      /\ HoldsNoMappedRole(ret.author) ) =>
        (ret.kind = "return" /\ ret.level = Default)

\* C5 as claimed: a call whose first token is no registered name returns
\* exactly (False, "Unknown command '<n>'").
C5_UnknownCommandText ==
    (Dispatched /\ ~ HasCommand(DispatchedName)) =>
        /\ ret.inner = "return"
        /\ ret.ok = FALSE
        /\ ret.msg = "Unknown command '" \o DispatchedName \o "'"

\* C5, amended: a call whose first token is no registered name returns
\* (False, "Error: Unknown command '<n>'"), raises nothing and invokes no
\* handler, for every user; the empty input gives "Error: Unknown command ''".
C5_UnknownCommand ==
    (Dispatched /\ ~ HasCommand(DispatchedName)) =>
        /\ ret.inner = "return"
        /\ ret.ok = FALSE
        /\ ret.msg = "Error: Unknown command '" \o DispatchedName \o "'"
        /\ ret.invoked = <<>>
        /\ (ret.input = <<>> => ret.msg = "Error: Unknown command ''")

\* C5 happens: the empty input has been called and refused
C5_Witness ==
    /\ ret.op = "call"
    /\ ret.input = <<>>
    /\ ret.msg = "Error: Unknown command ''"

\* C6: the exchanges of two execute calls on the socket exclude each other (a
\* request is written only when no response is unread), and a call gets the
\* response to its own request.
C6_Serialized ==
    /\ \A k \in 1 .. Len(sockets) : Cardinality(Unread(k)) <= 1
    /\ ret.reply # "other"

\* C7: a connect whose socket connection or whose login fails raises, leaves
\* the bridge disconnected with the socket it created closed, and starts no
\* chat client.
C7_ConnectFailure ==
    [][ (ret'.op = "connect" /\ ret'.input # <<"ok">>) =>
           /\ ret'.kind = "raise"
           /\ rcon_socket' = None
           /\ ~ IsConnected'
           /\ sockets'[Len(sockets')] = "closed"
           /\ link' = link ]_vars

\* C7 happens: a login has been rejected on a bridge that never had a client
C7_Witness ==
    /\ ret.op = "connect"
    /\ ret.input = <<"login_false">>
    /\ ret.exc = "Incorrect rcon password"
    /\ link = None

\* ret is the outcome of a coroutine that reached execute at its start
ReachedExecute(r) ==
    /\ ~ r.resumed
    /\ \/ r.op = "execute"
       \/ /\ r.op \in {"call", "on_message"}
          /\ r.invoked # <<>>
          /\ r.invoked[1].func.kind = "rcon"

\* C8: on a disconnected bridge execute returns "RCON is not connected", does
\* not raise, writes to no socket and leaves the bridge as it was.
C8_NotConnected ==
    [][ (ReachedExecute(ret') /\ rcon_socket = None) =>
           /\ ret'.inner = "return"
           /\ ret'.msg = "RCON is not connected"
           /\ UNCHANGED <<rcon_socket, sockets, wire, tasks>> ]_vars

\* C8 happens: execute has been called on a bridge that was closed
C8_Witness ==
    /\ ret.op = "execute"
    /\ ret.msg = NotConnectedText
    /\ rcon_socket = None
    /\ Len(sockets) > 0

\* C9: a fault of the dispatch of a message (of the resolver, of the handler,
\* of the RCON exchange) does not leave on_message: on_message returns, has
\* sent the apology that names the input, and the client goes on.
C9_FaultContained ==
    [][ (ret'.op = "on_message" /\ ret'.inner = "raise") =>
           /\ ret'.kind = "return"
           /\ ret'.sent =
                << ":exclamation: An error occurred while trying to run the command '"
                   \o Join(ret'.input)
                   \o "'.\nPlease notify the development team.\n\nException: "
                   \o ret'.exc >>
           /\ link' = link
           /\ link' # None ]_vars

\* C9 happens: on_message has caught the fault of a handler
C9_Witness ==
    /\ ret.op = "on_message"
    /\ ret.inner = "raise"
    /\ ret.exc = "boom"
    /\ Len(ret.sent) = 1

RECURSIVE JoinLines(_)
JoinLines(cs) ==
    IF cs = <<>> THEN "" ELSE HelpLine(Head(cs)) \o JoinLines(Tail(cs))

\* ret is the outcome of MCLink.help, reached through call
HelpRan ==
    /\ Dispatched
    /\ ret.invoked # <<>>
    /\ ret.invoked[1].func.kind = "help"
    /\ ret.inner = "return"

\* C10: the output of help has a line for a command if and only if the level
\* the command requires is at most the resolved level of the user.
C10_HelpCompleteness ==
    HelpRan =>
        LET l == GetMemberPermissionLevel(ret.author).level IN
        ret.msg = HelpHeader
                  \o JoinLines(SelectSeq(commands, LAMBDA x : x.permission <= l))

\* C10 happens: help has left out a command that requires Admin
C10_Witness ==
    /\ HelpRan
    /\ \E i \in 1 .. Len(commands) : commands[i].permission = Admin
    /\ ret.msg = HelpHeader \o HelpLine(commands[1])

\* C11: a message of the bridge's own account or of a bot account reaches call
\* never and sends nothing, whatever its content; a message of another author
\* reaches call if and only if its content starts with "!", and call then
\* gets the content without its first character, and the author.
C11_InputFilter ==
    [][ \A m \in Messages :
          ( /\ ret'.op = "on_message"
            /\ ret'.author = m.author.id
            /\ OnMessage(m.author, m.content) ) =>
            /\ (m.author = SelfUser \/ m.author.bot) =>
                  /\ ret'.inner = ""
                  /\ ret'.invoked = <<>>
                  /\ ret'.sent = <<>>
                  /\ ret'.kind = "return"
                  /\ UNCHANGED <<tasks, wire>>
            /\ ~ (m.author = SelfUser \/ m.author.bot) =>
                  /\ ret'.inner # "" <=> (m.content # <<>> /\ m.content[1] = "!")
                  /\ ret'.inner # "" =>
                        /\ <<"!">> \o ret'.input = m.content
                        /\ ret'.author = m.author.id
                  /\ ret'.inner = "" => ret'.sent = <<>> ]_vars

\* C11 happens: a command sent by another bot has been ignored
C11_Witness ==
    /\ ret.op = "on_message"
    /\ ret.author = OtherBot.id
    /\ ret.input = <<"!", "help">>
    /\ ret.inner = ""
    /\ ret.sent = <<>>

\* C12: when the call of a dispatched message returns (success, text),
\* on_message sends exactly one message to the channel: text when success is
\* true, "[FAIL] " followed by text when it is false.
C12_ResultDelivery ==
    (ret.op = "on_message" /\ ret.inner = "return") =>
        /\ ret.kind = "return"
        /\ Len(ret.sent) = 1
        /\ ret.ok => ret.sent[1] = ret.msg
        /\ ~ ret.ok => ret.sent[1] = "[FAIL] " \o ret.msg

\* C12 happens: the refusal of an unknown command has been sent with the marker
C12_Witness ==
    /\ ret.op = "on_message"
    /\ ret.inner = "return"
    /\ ~ ret.ok
    /\ ret.sent = << "[FAIL] Error: Unknown command 'frobnicate'" >>

\* C13: when the handler of an authorized command returns no result, call
\* returns (True, "No response for command"); when it returns a pair
\* (success, message), call returns that pair.
C13_Normalization ==
    (Dispatched /\ ret.invoked # <<>>) =>
        LET f == ret.invoked[1].func IN
        /\ f.kind = "none" =>
              /\ ret.inner = "return"
              /\ ret.ok = TRUE
              /\ ret.msg = "No response for command"
        /\ f.kind = "pair" =>
              /\ ret.inner = "return"
              /\ ret.ok = f.ok
              /\ ret.msg = f.text

\* C13 happens: a call of a handler that returns nothing has returned
C13_Witness ==
    /\ ret.op = "call"
    /\ ret.invoked # <<>>
    /\ ret.invoked[1].func = RetNone
    /\ ret.kind = "return"
    /\ ret.ok

\* C14: register_command(n, L2, h2, help2) on a registry that holds an entry
\* for n leaves one entry for n, which is (n, L2, h2, help2), and every other
\* entry as it was; after it a call of n is refused below L2 and invokes no
\* handler but h2; and at any time the handler a call invokes is the one the
\* registry holds for the name.
C14_ReplacesFully ==
    [][ /\ (Dispatched' /\ ret'.invoked # <<>>) =>
              /\ \E k \in 1 .. Len(commands') :
                    commands'[k].name = ret'.invoked[1].name
              /\ \A k \in 1 .. Len(commands') :
                  commands'[k].name = ret'.invoked[1].name <=>
                      commands'[k] = Command(ret'.invoked[1].name,
                                             commands'[k].permission,
                                             ret'.invoked[1].func,
                                             commands'[k].help)
        /\ \A n \in CommandNames, l \in CommandLevels, f \in UserHandlers,
              h \in HelpTexts :
            ( /\ ret'.op = "register_command"
              /\ HasCommand(n)
              /\ RegisterCommand(n, l, f, h) ) =>
              /\ Len(commands') = Len(commands)
              /\ \A i \in 1 .. Len(commands) :
                    IF commands[i].name = n
                    THEN commands'[i] =
                           [name |-> n, permission |-> l, func |-> f, help |-> h]
                    ELSE commands'[i] = commands[i]
              /\ \A i, j \in 1 .. Len(commands') :
                    commands'[i].name = commands'[j].name => i = j
              /\ \A i \in Inputs, u \in UserIds :
                    Split(i)[1] = n =>
                      LET out == CallStart(i, u)'
                          lv == GetMemberPermissionLevel(u)
                      IN  /\ (lv.kind = "return" /\ lv.level < l) =>
                                (out.msg = NoPermissionText /\ out.invoked = <<>>)
                          /\ out.invoked # <<>> => out.invoked[1].func = f ]_vars

\* C14 happens: the entry of "help" has been replaced, and a call of "help"
\* has invoked the handler that replaced MCLink.help
C14_Witness ==
    /\ ret.op = "call"
    /\ ret.invoked # <<>>
    /\ ret.invoked[1].name = "help"
    /\ ret.invoked[1].func = RetFail
    /\ Len(commands) = 1
    /\ commands[1].help = "List players"

\* C15: register_admin is an idempotent insert: a user id registered twice is
\* in the admin list once, as after one registration.
C15_IdempotentInsert ==
    \A x \in AdminIds :
        Cardinality({ i \in 1 .. Len(bot_admins) : bot_admins[i] = x }) <= 1

\* the sockets created by connect that are open
OpenSockets == { k \in 1 .. Len(sockets) : sockets[k] = "open" }

\* C16: in every reachable state, also after a connect on a connected bridge,
\* at most one RCON socket is open, and an open socket is the one the bridge
\* holds; a disconnected bridge has none.
C16_OneSocket ==
    /\ Cardinality(OpenSockets) <= 1
    /\ \A k \in OpenSockets : rcon_socket = k
    /\ ~ IsConnected => OpenSockets = {}

\* C17: the handler gets the tokens of the input after the first, in order,
\* and none of them is the empty string, also when the input has several
\* spaces in a row or ends with a space; it gets no token when the input is
\* the name alone.
C17_Tokenization ==
    (Dispatched /\ ret.invoked # <<>>) =>
        LET args == ret.invoked[1].args IN
        /\ \A k \in 1 .. Len(args) : args[k] # ""
        /\ Len(ret.input) = 1 => args = <<>>

\* C18: call decides the lookup before it consults the resolver: a name that
\* is not registered gives the unknown-command result, never the
\* permission-denied message and never a fault of the resolver, for every
\* user, also while the chat link is not established.
C18_LookupFirst ==
    (Dispatched /\ ~ HasCommand(DispatchedName)) =>
        /\ ret.inner = "return"
        /\ ret.msg # "You don't have permission for that command."
        /\ \A u \in UserIds :
              /\ CallStart(ret.input, u).kind = "return"
              /\ CallStart(ret.input, u).msg = ret.msg
              /\ CallStart(ret.input, u).invoked = <<>>

\* C18 happens: an unknown command has been refused while the resolver could
\* not run
C18_Witness ==
    /\ ret.op = "call"
    /\ ret.input = <<"frobnicate">>
    /\ ret.inner = "return"
    /\ link = None
    /\ GetMemberPermissionLevel(ret.author).kind = "raise"

Holders(r) ==
    { u \in UserIds :
        /\ ~ NotAMember(u)
        /\ \E k \in 1 .. Len(MemberRoles[u]) : MemberRoles[u][k] = r }

\* a command registered through one object is found by call on every other
CommandsShared ==
    \A n \in CommandNames, l \in CommandLevels, f \in UserHandlers,
       h \in HelpTexts :
        (RegisterCommand(n, l, f, h)
           \/ \E s \in 2 .. MaxInstances : RegisterCommandOn(s, n, l, f, h)) =>
            \A inst \in (1 .. instances) \ {ret'.self}, u \in UserIds :
                /\ HasCommand(n)'
                /\ LookupCommand(n)' = Command(n, l, f, h)
                /\ CallStartOn(inst, <<n>>, u)'.msg # UnknownCommandText(n)

\* a role registered through one object is found by the resolver of every
\* other, whenever that resolver answers
RolesFound ==
    \A r \in RoleIds, l \in RoleLevels :
        (RegisterRole(PyInt(r), l)
           \/ \E s \in 2 .. MaxInstances : RegisterRoleOn(s, PyInt(r), l)) =>
            \A inst \in (1 .. instances) \ {ret'.self}, u \in Holders(r) :
                LevelOn(inst, u)'.kind = "return" =>
                    LevelOn(inst, u)'.level >= l

\* the construction of a further object leaves "help" bound to that object
HelpRebound ==
    Construct =>
        /\ HasCommand("help")'
        /\ LookupCommand("help")'.func = BoundHelp(instances')
        /\ LookupCommand("help")'.func # BoundHelp(instances)

\* C20: the command table and the role table are state of the class: a
\* command or a role registered through one MCLink object is found by call,
\* respectively by the resolver, of every other object, and the construction
\* of a further object replaces the entry of "help" by the handler bound to
\* the object constructed.
C20_SharedRegistry ==
    [][ CommandsShared /\ RolesFound /\ HelpRebound ]_vars

====
